---------------------------- MODULE Spec2Model ----------------------------
(***************************************************************************)
(* Model of the premarket watchlist pipeline (afadxb/bot1.1).              *)
(*                                                                         *)
(*   SpecParse : the cell parsers of premarket/utils.py applied to one     *)
(*               cell value (safe_float, safe_percent, safe_int,           *)
(*               parse_range).                                             *)
(*   SpecNews  : _news_scores of premarket/orchestrate.py applied to a     *)
(*               symbol list, a news configuration and a probe result.     *)
(*   Spec      : orchestrate.run, one action per statement group, from     *)
(*               configuration loading to the final return.                *)
(*   SpecEnv   : env_str of premarket/utils.py reading one variable of     *)
(*               the process environment.                                  *)
(*   SpecLoad  : download_csv and _http_get of premarket/loader_finviz.py  *)
(*               as run calls them, one action per fetch and per branch.   *)
(*   SpecDb    : write_sqlite_outputs of premarket/persist.py called       *)
(*               repeatedly on one database.                               *)
(*   SpecUrl   : redact_token of premarket/utils.py applied to the URL     *)
(*               download_csv logs, and to a URL that differs from it      *)
(*               only in query parameter values.                           *)
(*                                                                         *)
(* Text is a sequence of one-character strings.  A Python float is kept    *)
(* exactly as a fixed-point integer (value * Scale); nan and the           *)
(* infinities are separate kinds.                                          *)
(***************************************************************************)
EXTENDS Integers, Sequences, FiniteSets, TLC

VARIABLES
    \* --- SpecParse: one cell through the four parsers
    ppc,            \* "input" before the parsers ran, "parsed" after
    cell,           \* the cell value handed to the parsers
    r_float,        \* outcome of safe_float(cell)
    r_percent,      \* outcome of safe_percent(cell)
    r_int,          \* outcome of safe_int(cell)
    r_range,        \* outcome of parse_range(cell)
    warning_count,  \* warning increments made while parsing
    \* --- SpecNews: one call of _news_scores and the column built from it
    npc,            \* "input", "scored" (after _news_scores), "attached"
    n_symbols,      \* the tickers of the qualified rows, in row order
    n_cfg,          \* NewsModel: enabled, freshness_hours
    n_raw,          \* what news_probe returns for the call
    n_result,       \* outcome of _news_scores: the dict, or the exception
    n_column,       \* the news_fresh_score column
    \* --- Spec: orchestrate.run
    pc,             \* the statement group run is about to execute
    ret,            \* run's return value, NoCode until it returns
    top_n,          \* the top_n argument (the --top-n override, or None)
    cfg,            \* the loaded StrategyConfig
    used_cached_csv,
    df,             \* the table read, normalized and coerced
    qualified_df,
    rejected_df,
    features_input, \* the table handed to features.build_features
    featured_df,
    diversified_df,
    calls,          \* the pipeline functions called so far, in order
    files,          \* the artifacts written to the output directory
    \* --- SpecEnv: one call of env_str
    epc,            \* "input" before the call, "read" after
    environ,        \* os.environ: variable name -> text
    e_default,      \* the default argument
    e_result,       \* what env_str returned
    \* --- SpecLoad: run's call of loader_finviz.download_csv
    lpc,            \* the statement of download_csv, _http_get or run next
    finviz_url,     \* the url argument
    use_cache,      \* the use_cache argument
    cached,         \* data/raw at the call: directory -> finviz_elite.csv
    age,            \* minutes since out_path was modified, at the call
    attempt,        \* the attempt of _http_get under way, 0 before the first
    fetches,        \* the fetch functions called so far, with their outcome
    http_result,    \* outcome of _http_get
    written,        \* what this call wrote to out_path
    csv_result,     \* outcome of download_csv
    escaped,        \* the exception run let escape, "none" if none
    \* --- SpecDb: calls of write_sqlite_outputs on one database
    db,             \* table name -> its rows, in rowid order
    db_before,      \* the database as it was before the latest call
    db_history,     \* the calls made so far: arguments and outcome
    \* --- SpecUrl: the log line of download_csv, for two URLs
    upc,            \* "input" before the line is logged, "logged" after
    url,            \* the url argument of download_csv
    twin,           \* url with other non-empty query parameter values
    logged,         \* redact_token(url) as logged
    twin_logged     \* redact_token(twin) as logged

parseVars == <<ppc, cell, r_float, r_percent, r_int, r_range, warning_count>>

newsVars == <<npc, n_symbols, n_cfg, n_raw, n_result, n_column>>

runVars == <<pc, ret, top_n, cfg, used_cached_csv, df, qualified_df, rejected_df,
             features_input, featured_df, diversified_df, calls, files>>

envVars == <<epc, environ, e_default, e_result>>

\* the collaborators around the pipeline
loadVars == <<lpc, finviz_url, use_cache, cached, age, attempt, fetches,
              http_result, written, csv_result, escaped>>

dbVars == <<db, db_before, db_history>>

urlVars == <<upc, url, twin, logged, twin_logged>>

ioVars == <<envVars, loadVars, dbVars, urlVars>>

vars == <<parseVars, newsVars, runVars, ioVars>>

-----------------------------------------------------------------------------
(* Bounds *)

\* longest cell text
MaxLen == 4

\* most symbols handed to one _news_scores call
MaxSymbols == 2

\* most rows of the downloaded table
MaxRows == 3

\* most date directories under data/raw
MaxDirs == 3

\* most calls of write_sqlite_outputs on the database
MaxCalls == 2

\* most query parameters of a URL
MaxParams == 2

-----------------------------------------------------------------------------
(* Python values *)

\* a decimal text of at most MaxLen characters has at most MaxLen - 1 digits
\* behind its point
FracDigits == MaxLen - 1

\* fixed-point scale: every such text is exact
Scale == 10 ^ FracDigits

V(k, m) == [k |-> k, m |-> m]
NoneV == V("none", 0)
FloatV(m) == V("float", m)
IntV(n) == V("int", n)
NanV == V("nan", 0)
InfV(sgn) == V("inf", sgn)
Raised(exc) == V(exc, 0)

Exceptions == {"ValueError", "OverflowError", "ZeroDivisionError", "TypeError"}
IsRaise(v) == v.k \in Exceptions

\* Python == on two floats: nan equals nothing, not even itself
FloatEq(a, b) == a.k # "nan" /\ b.k # "nan" /\ a = b

StrCell(s) == [t |-> "str", s |-> s, v |-> NoneV]
ObjCell(t, v) == [t |-> t, s |-> <<>>, v |-> v]

\* The characters cell texts are built from.  No exponent letter, underscore
\* or plus sign occurs, so float() never meets those forms.
Alphabet == {"1", "5", ".", ",", "$", "%", "-", " ", "N", "A", "a", "/"}

Strings(n) == UNION {[1..k -> Alphabet] : k \in 0..n}

\* what a cell read from a CSV (or handed over by a caller) can hold
NonStringCells ==
    { ObjCell("none", NoneV),
      ObjCell("int", IntV(0)), ObjCell("int", IntV(5)), ObjCell("int", IntV(-5)),
      ObjCell("bool", IntV(0)), ObjCell("bool", IntV(1)),
      ObjCell("float", FloatV((3 * Scale) \div 2)),
      ObjCell("float", FloatV(0 - ((3 * Scale) \div 2))),
      ObjCell("float", NanV),
      ObjCell("float", InfV(1)), ObjCell("float", InfV(-1)) }

Cells == {StrCell(s) : s \in Strings(MaxLen)} \cup NonStringCells

-----------------------------------------------------------------------------
(* str methods *)

SetMin(S) == CHOOSE x \in S : \A y \in S : x <= y
SetMax(S) == CHOOSE x \in S : \A y \in S : y <= x

RECURSIVE SumOver(_, _)
SumOver(S, f) ==
    IF S = {} THEN 0
    ELSE LET x == CHOOSE y \in S : TRUE IN f[x] + SumOver(S \ {x}, f)

\* str.strip()
Strip(s) ==
    LET keep == {i \in 1..Len(s) : s[i] # " "}
    IN  IF keep = {} THEN <<>> ELSE SubSeq(s, SetMin(keep), SetMax(keep))

\* str.replace(c, "")
Remove(s, c) == SelectSeq(s, LAMBDA x : x # c)

UpperChar(c) == IF c = "a" THEN "A" ELSE IF c = "n" THEN "N" ELSE c
\* str.upper()
Upper(s) == [i \in 1..Len(s) |-> UpperChar(s[i])]

Digits == {"0", "1", "2", "3", "4", "5", "6", "7", "8", "9"}
DigitVal(c) ==
    CASE c = "0" -> 0 [] c = "1" -> 1 [] c = "2" -> 2 [] c = "3" -> 3
      [] c = "4" -> 4 [] c = "5" -> 5 [] c = "6" -> 6 [] c = "7" -> 7
      [] c = "8" -> 8 [] c = "9" -> 9

RECURSIVE DigitsVal(_)
DigitsVal(d) ==
    IF d = <<>> THEN 0
    ELSE 10 * DigitsVal(SubSeq(d, 1, Len(d) - 1)) + DigitVal(d[Len(d)])

\* float(text): surrounding whitespace ignored, optional sign, then "nan",
\* or digits with at most one point and at least one digit.
PyFloat(text) ==
    LET t == Strip(text)
        signed == t # <<>> /\ t[1] \in {"-", "+"}
        sgn == IF signed /\ t[1] = "-" THEN -1 ELSE 1
        body == IF signed THEN Tail(t) ELSE t
        dots == {i \in 1..Len(body) : body[i] = "."}
        dot == IF dots = {} THEN Len(body) + 1 ELSE SetMin(dots)
        whole == SubSeq(body, 1, dot - 1)
        frac == SubSeq(body, dot + 1, Len(body))
    IN  IF Upper(body) = <<"N", "A", "N">> THEN NanV
        ELSE IF /\ body # <<>>
                /\ \A i \in 1..Len(body) : body[i] \in Digits \cup {"."}
                /\ Cardinality(dots) <= 1
                /\ Len(whole) + Len(frac) >= 1
             THEN FloatV(sgn * (DigitsVal(whole) * Scale
                                + DigitsVal(frac) * 10 ^ (FracDigits - Len(frac))))
             ELSE Raised("ValueError")

\* float(x) of an int, bool or float object
FloatOfNumber(v) == IF v.k = "int" THEN FloatV(v.m * Scale) ELSE v

\* int(x) of a float: truncation toward zero; nan and the infinities raise
IntOfFloat(v) ==
    CASE v.k = "nan" -> Raised("ValueError")
      [] v.k = "inf" -> Raised("OverflowError")
      [] v.k = "float" ->
            IntV(IF v.m >= 0 THEN v.m \div Scale ELSE 0 - ((0 - v.m) \div Scale))
      [] OTHER -> v

Sentinels == {<<"N", "/", "A">>, <<"N", "A">>, <<"-">>}

-----------------------------------------------------------------------------
(* premarket/utils.py *)

\* mutant of safe_float: the "$" sign is not removed
safe_float_keeps_dollar(value) ==
    IF value.t = "none" THEN NoneV
    ELSE IF value.t \in {"int", "bool", "float"} THEN FloatOfNumber(value.v)
    ELSE IF value.t = "str" THEN
        LET stripped == Strip(value.s)
        IN  IF stripped = <<>> \/ Upper(stripped) \in Sentinels THEN NoneV
            ELSE LET f == PyFloat(Remove(stripped, ","))
                 IN  IF f.k = "ValueError" THEN NoneV ELSE f
    ELSE NoneV

safe_float(value) ==
    IF value.t = "none" THEN NoneV
    ELSE IF value.t \in {"int", "bool", "float"} THEN FloatOfNumber(value.v)
    ELSE IF value.t = "str" THEN
        LET stripped == Strip(value.s)
        IN  IF stripped = <<>> \/ Upper(stripped) \in Sentinels THEN NoneV
            ELSE LET f == PyFloat(Remove(Remove(stripped, ","), "$"))
                 IN  IF f.k = "ValueError" THEN NoneV ELSE f
    ELSE NoneV

\* mutant of safe_float_warnings: a failed float() bumps a counter
safe_float_warnings_counted(value) ==
    IF /\ value.t = "str"
       /\ Strip(value.s) # <<>>
       /\ Upper(Strip(value.s)) \notin Sentinels
       /\ safe_float(value).k = "none"
    THEN 1 ELSE 0

\* warning-counter increments made by one safe_float call: the except branch
\* returns None and touches no counter
safe_float_warnings(value) == 0

safe_percent(value) ==
    LET v == IF value.t = "str" THEN StrCell(Remove(value.s, "%")) ELSE value
        result == safe_float(v)
    IN  IF result.k = "none" THEN NoneV ELSE result

safe_int(value) ==
    IF value.t \in {"int", "bool", "float"} THEN IntOfFloat(value.v)
    ELSE IF value.t = "str" THEN
        LET stripped == Remove(Strip(value.s), ",")
        IN  IF stripped = <<>> \/ Upper(stripped) \in Sentinels THEN NoneV
            ELSE LET f == PyFloat(stripped)
                     n == IF IsRaise(f) THEN f ELSE IntOfFloat(f)
                 IN  IF n.k = "ValueError" THEN NoneV ELSE n
    ELSE NoneV

\* str.split("-"): the pieces between hyphens, empty pieces included
RECURSIVE SplitHyphen(_)
SplitHyphen(s) ==
    LET hy == {i \in 1..Len(s) : s[i] = "-"}
    IN  IF hy = {} THEN <<s>>
        ELSE <<SubSeq(s, 1, SetMin(hy) - 1)>>
             \o SplitHyphen(SubSeq(s, SetMin(hy) + 1, Len(s)))

NoRange == [k |-> "none", lo |-> NoneV, hi |-> NoneV]
Range(lo, hi) == [k |-> "pair", lo |-> lo, hi |-> hi]

\* mutant of parse_range: split("-", 1), empty pieces kept
parse_range_first_hyphen(range_str) ==
    IF range_str.t # "str" THEN NoRange
    ELSE LET hy == {i \in 1..Len(range_str.s) : range_str.s[i] = "-"}
         IN  IF hy = {} THEN NoRange
             ELSE LET before == Strip(SubSeq(range_str.s, 1, SetMin(hy) - 1))
                      after == Strip(SubSeq(range_str.s, SetMin(hy) + 1,
                                            Len(range_str.s)))
                      low == safe_float(StrCell(before))
                      high == safe_float(StrCell(after))
                  IN  IF \/ before = <<>> \/ after = <<>>
                         \/ low.k = "none" \/ high.k = "none"
                         \/ FloatEq(high, low)
                      THEN NoRange
                      ELSE Range(low, high)

parse_range(range_str) ==
    IF range_str.t # "str" THEN NoRange
    ELSE LET pieces == SplitHyphen(range_str.s)
             kept == SelectSeq(pieces, LAMBDA p : Strip(p) # <<>>)
             parts == [i \in 1..Len(kept) |-> Strip(kept[i])]
         IN  IF Len(parts) # 2 THEN NoRange
             ELSE LET low == safe_float(StrCell(parts[1]))
                      high == safe_float(StrCell(parts[2]))
                  IN  IF low.k = "none" \/ high.k = "none" \/ FloatEq(high, low)
                      THEN NoRange
                      ELSE Range(low, high)

-----------------------------------------------------------------------------
(* SpecParse *)

Unset == V("unset", 0)
UnsetRange == [k |-> "unset", lo |-> NoneV, hi |-> NoneV]

\* the four parsers applied to the cell
ParseCell ==
    /\ ppc = "input"
    /\ ppc' = "parsed"
    /\ r_float' = safe_float(cell)
    /\ r_percent' = safe_percent(cell)
    /\ r_int' = safe_int(cell)
    /\ r_range' = parse_range(cell)
    /\ warning_count' = warning_count + safe_float_warnings(cell)
    /\ UNCHANGED cell
    /\ UNCHANGED <<newsVars, runVars, ioVars>>

NextParse == ParseCell


-----------------------------------------------------------------------------
(* premarket/news_probe.py and _news_scores of premarket/orchestrate.py *)

SeqsUpTo(S, n) == UNION {[1..k -> S] : k \in 0..n}
Elems(q) == {q[i] : i \in 1..Len(q)}

\* a probe payload: a dict carrying freshness_hours (None or a number of
\* hours), or something that is not a dict
Payload(isDict, fresh) == [dict |-> isDict, fresh |-> fresh]
FreshnessValues == {NoneV, IntV(-1), IntV(0), IntV(1), IntV(3)}
Payloads == {Payload(TRUE, f) : f \in FreshnessValues} \cup {Payload(FALSE, NoneV)}

\* news_probe.probe: freshness_hours None for every symbol asked for
probe(symbols) == [sym \in Elems(symbols) |-> Payload(TRUE, NoneV)]

NewsModel(enabled, hours) == [enabled |-> enabled, freshness_hours |-> hours]
FreshnessHours == {-1, 0, 1, 2}

ScoresDict(d) == [exc |-> "none", scores |-> d]
ScoresRaised(exc) == [exc |-> exc, scores |-> <<>>]

Max2(a, b) == IF b > a THEN b ELSE a
Min2(a, b) == IF b < a THEN b ELSE a

\* max(0.0, 1 - min(freshness, hours) / hours), clipped to [0, 1], for
\* hours # 0; fixed point, exact for the hours used here
Normalized(fresh, hours) ==
    LET f == Max2(0, fresh)
        mn == Min2(f, hours)
        ratio == IF hours > 0 THEN (mn * Scale) \div hours
                 ELSE ((0 - mn) * Scale) \div (0 - hours)
    IN  Min2(Scale, Max2(0, Max2(0, Scale - ratio)))

\* raw is the dict news_probe returned
_news_scores(symbols, news_cfg, raw) ==
    IF ~news_cfg.enabled \/ symbols = <<>>
    THEN ScoresDict([sym \in Elems(symbols) |-> FloatV(0)])
    ELSE LET fresh(sym) == IF raw[sym].dict THEN raw[sym].fresh ELSE NoneV
         IN  IF /\ news_cfg.freshness_hours = 0
                /\ \E sym \in DOMAIN raw : fresh(sym) # NoneV
             THEN ScoresRaised("ZeroDivisionError")
             ELSE ScoresDict([sym \in DOMAIN raw |->
                     IF fresh(sym) = NoneV THEN FloatV(0)
                     ELSE FloatV(Normalized(fresh(sym).m,
                                            news_cfg.freshness_hours))])

\* [news_scores.get(sym, 0.0) for sym in symbols]
news_fresh_score(symbols, news_scores) ==
    [i \in 1..Len(symbols) |->
        IF symbols[i] \in DOMAIN news_scores THEN news_scores[symbols[i]]
        ELSE FloatV(0)]

-----------------------------------------------------------------------------
(* SpecNews *)

NewsSymbols == {"AAA", "BBB"}

\* news_scores = _news_scores(symbols, news_cfg)
CallNewsScores ==
    /\ npc = "input"
    /\ n_result' = _news_scores(n_symbols, n_cfg, n_raw)
    /\ npc' = IF n_result'.exc = "none" THEN "scored" ELSE "raised"
    /\ UNCHANGED <<n_symbols, n_cfg, n_raw, n_column>>
    /\ UNCHANGED <<parseVars, runVars, ioVars>>

\* qualified_df["news_fresh_score"] = [...]
AttachNewsScores ==
    /\ npc = "scored"
    /\ n_column' = news_fresh_score(n_symbols, n_result.scores)
    /\ npc' = "attached"
    /\ UNCHANGED <<n_symbols, n_cfg, n_raw, n_result>>
    /\ UNCHANGED <<parseVars, runVars, ioVars>>

NextNews ==
    \/ CallNewsScores
    \/ AttachNewsScores


-----------------------------------------------------------------------------
(* The table and the pipeline stages called by orchestrate.run *)

Sectors == {"Technology", "Healthcare"}
TickerNames == <<"AAA", "BBB", "CCC", "DDD", "EEE", "FFF">>
TickerOrd(t) == CHOOSE i \in 1..Len(TickerNames) : TickerNames[i] = t

\* One row.  Columns carry their canonical names throughout; a column a stage
\* has not filled yet holds None.
Row(ticker, sector, price, rel_volume, volume) ==
    [ticker |-> ticker, sector |-> sector, price |-> price,
     rel_volume |-> rel_volume, volume |-> volume,
     news_fresh_score |-> NoneV, turnover_dollar |-> NoneV,
     score |-> NoneV, rank |-> NoneV]

\* Rows as pandas reads them: a text column stays text, a numeric column
\* arrives as numbers.  A row whose price is "N/A" is one kind of row; a
\* priced row varies in sector, relative volume and volume.
PricedRows(ticker) ==
    {Row(ticker, sec, StrCell(<<"$", "5">>), ObjCell("int", IntV(act[1])),
         ObjCell("int", IntV(act[2]))) :
        sec \in Sectors, act \in {<<1, 1>>, <<1, 2>>, <<2, 1>>}}
UnpricedRows(ticker) ==
    {Row(ticker, "Technology", StrCell(<<"N", "/", "A">>),
         ObjCell("int", IntV(1)), ObjCell("int", IntV(1)))}

\* the tables of n rows: distinct tickers, listed in descending ticker order
TablesOf(n) ==
    {t \in [1..n -> UNION {PricedRows(TickerNames[i]) \cup UnpricedRows(TickerNames[i])
                              : i \in 1..n}] :
        \A i \in 1..n : t[i].ticker = TickerNames[n + 1 - i]}
Tables == UNION {TablesOf(n) : n \in 0..MaxRows}

\* premarket.max_per_sector as a fraction
Fraction(num, den) == [num |-> num, den |-> den]
MaxPerSectorValues == {Fraction(0, 1), Fraction(1, 2), Fraction(1, 1)}

StrategyConfig(maxPerSector) ==
    [premarket |-> [price_min |-> 1, price_max |-> 20, top_n |-> 2,
                    max_per_sector |-> maxPerSector],
     news |-> NewsModel(TRUE, 24)]
NoConfig == StrategyConfig(Fraction(0, 1))

\* the top_n argument of run: None, or the --top-n override
NoTopN == [given |-> FALSE, v |-> 0]
TopN(v) == [given |-> TRUE, v |-> v]
TopNArgs == {NoTopN} \cup {TopN(v) : v \in {-1, 0, 1, 3}}

\* normalize.normalize_columns: headers mapped to canonical names; rows, row
\* order and cells untouched
normalize_columns(table) == table

\* normalize.coerce_types: each cell through its parser; no row dropped
coerce_types(table) ==
    [i \in 1..Len(table) |->
        [table[i] EXCEPT !.price = safe_float(table[i].price),
                         !.rel_volume = safe_float(table[i].rel_volume),
                         !.volume = safe_int(table[i].volume)]]

\* filters.apply_hard_filters, price rule: inclusive range, absent fails
PassesFilters(row, pm) ==
    /\ row.price.k = "float"
    /\ pm.price_min * Scale <= row.price.m
    /\ row.price.m <= pm.price_max * Scale

apply_hard_filters(table, pm) ==
    [qualified |-> SelectSeq(table, LAMBDA r : PassesFilters(r, pm)),
     rejected |-> SelectSeq(table, LAMBDA r : ~PassesFilters(r, pm))]

\* features.build_features: turnover_dollar = price * volume, absent when
\* either is absent
build_features(table) ==
    [i \in 1..Len(table) |->
        [table[i] EXCEPT !.turnover_dollar =
            IF table[i].price.k = "float" /\ table[i].volume.k = "int"
            THEN FloatV(table[i].price.m * table[i].volume.m)
            ELSE NoneV]]

\* ranker.compute_score with weight 1 on relative volume and 0 elsewhere
compute_score(row) ==
    IF row.rel_volume.k = "float" THEN FloatV(row.rel_volume.m) ELSE FloatV(0)

\* mutant of Before: score ascending
BeforeScoreAscending(a, b) ==
    \/ a.score.m < b.score.m
    \/ /\ a.score.m = b.score.m
       /\ \/ a.turnover_dollar.m > b.turnover_dollar.m
          \/ /\ a.turnover_dollar.m = b.turnover_dollar.m
             /\ TickerOrd(a.ticker) < TickerOrd(b.ticker)

\* a sorts before b under by=["score", "turnover_dollar", "ticker"],
\* ascending=[False, False, True]
Before(a, b) ==
    \/ a.score.m > b.score.m
    \/ /\ a.score.m = b.score.m
       /\ \/ a.turnover_dollar.m > b.turnover_dollar.m
          \/ /\ a.turnover_dollar.m = b.turnover_dollar.m
             /\ TickerOrd(a.ticker) < TickerOrd(b.ticker)

\* DataFrame.sort_values: each row lands behind the rows that sort before it
sort_values(table) ==
    LET pos(i) == 1 + Cardinality({j \in 1..Len(table) : Before(table[j], table[i])})
    IN  [k \in 1..Len(table) |->
            table[CHOOSE i \in 1..Len(table) : pos(i) = k]]

\* ceil(max_fraction * top_n)
SectorCap(n, maxFraction) ==
    (maxFraction.num * n + maxFraction.den - 1) \div maxFraction.den

SectorCount(table, picked, sector) ==
    Cardinality({j \in 1..Len(picked) : table[picked[j]].sector = sector})

\* the strict walk: row i is admitted while top_n is not reached and its
\* sector stays within the cap
RECURSIVE StrictPass(_, _, _, _, _)
StrictPass(table, i, picked, n, cap) ==
    IF i > Len(table) THEN picked
    ELSE IF /\ Len(picked) < n
            /\ SectorCount(table, picked, table[i].sector) + 1 <= cap
         THEN StrictPass(table, i + 1, Append(picked, i), n, cap)
         ELSE StrictPass(table, i + 1, picked, n, cap)

\* the relaxed walk: the rows passed over, in order, until top_n is reached
RECURSIVE RelaxedPass(_, _, _, _)
RelaxedPass(table, i, picked, n) ==
    IF i > Len(table) \/ Len(picked) >= n THEN picked
    ELSE IF i \in Elems(picked) THEN RelaxedPass(table, i + 1, picked, n)
         ELSE RelaxedPass(table, i + 1, Append(picked, i), n)

\* ranker.apply_sector_diversity
apply_sector_diversity(table, n, maxFraction) ==
    LET strict == StrictPass(table, 1, <<>>, n, SectorCap(n, maxFraction))
        picked == IF Len(strict) < n THEN RelaxedPass(table, 1, strict, n)
                  ELSE strict
    IN  [k \in 1..Len(picked) |-> table[picked[k]]]

\* DataFrame.head(n): the first n rows; for negative n all but the last -n
head(table, n) ==
    IF n >= 0 THEN SubSeq(table, 1, Min2(n, Len(table)))
    ELSE SubSeq(table, 1, Max2(0, Len(table) + n))

-----------------------------------------------------------------------------
(* orchestrate.run *)

NoCode == -1
Artifacts == {"full_watchlist.json", "topN.json", "watchlist.csv", "run_summary.json"}
Column(table, name) == [i \in 1..Len(table) |-> table[i][name]]

Return(code) == pc' = "returned" /\ ret' = code
Goto(label) == pc' = label /\ ret' = ret

\* cfg = _load_config(Path(cfg_path)); a failure returns 1
LoadConfig ==
    /\ pc = "load_config"
    /\ \/ /\ \E mps \in MaxPerSectorValues : cfg' = StrategyConfig(mps)
          /\ Goto("env")
       \/ /\ cfg' = cfg
          /\ Return(1)
    /\ UNCHANGED <<top_n, used_cached_csv, df, qualified_df, rejected_df,
                   features_input, featured_df, diversified_df, calls, files>>
    /\ UNCHANGED <<parseVars, newsVars, ioVars>>

\* FINVIZ_EXPORT_URL unset returns 3; otherwise the news switch and the
\* output directory are settled
CheckUrl ==
    /\ pc = "env"
    /\ \/ Goto("download")
       \/ Return(3)
    /\ UNCHANGED <<top_n, cfg, used_cached_csv, df, qualified_df, rejected_df,
                   features_input, featured_df, diversified_df, calls, files>>
    /\ UNCHANGED <<parseVars, newsVars, ioVars>>

\* csv_path = loader_finviz.download_csv(...): today's file, an older cached
\* file, or RuntimeError, which returns 3
DownloadCsv ==
    /\ pc = "download"
    /\ \/ /\ \E other \in BOOLEAN : used_cached_csv' = other
          /\ Goto("read")
       \/ /\ used_cached_csv' = used_cached_csv
          /\ Return(3)
    /\ UNCHANGED <<top_n, cfg, df, qualified_df, rejected_df,
                   features_input, featured_df, diversified_df, calls, files>>
    /\ UNCHANGED <<parseVars, newsVars, ioVars>>

\* df = read_csv(csv_path); normalize_columns(df); coerce_types(df)
ReadNormalizeCoerce ==
    /\ pc = "read"
    /\ \E table \in Tables :
          df' = coerce_types(normalize_columns(table))
    /\ calls' = calls \o <<"read_csv", "normalize_columns", "coerce_types">>
    /\ Goto("filter")
    /\ UNCHANGED <<top_n, cfg, used_cached_csv, qualified_df, rejected_df,
                   features_input, featured_df, diversified_df, files>>
    /\ UNCHANGED <<parseVars, newsVars, ioVars>>

\* qualified_df, rejected_df = apply_hard_filters(df, filter_cfg); an empty
\* qualified_df returns 2
ApplyHardFilters ==
    /\ pc = "filter"
    /\ LET parts == apply_hard_filters(df, cfg.premarket)
       IN  /\ qualified_df' = parts.qualified
           /\ rejected_df' = parts.rejected
           /\ IF parts.qualified = <<>> THEN Return(2) ELSE Goto("news")
    /\ calls' = Append(calls, "apply_hard_filters")
    /\ UNCHANGED <<top_n, cfg, used_cached_csv, df,
                   features_input, featured_df, diversified_df, files>>
    /\ UNCHANGED <<parseVars, newsVars, ioVars>>

\* news_scores = _news_scores(symbols, news_cfg) with the shipped probe;
\* qualified_df["news_fresh_score"] = [...]
NewsScores ==
    /\ pc = "news"
    /\ n_symbols' = Column(qualified_df, "ticker")
    /\ n_cfg' = cfg.news
    /\ n_raw' = probe(n_symbols')
    /\ n_result' = _news_scores(n_symbols', n_cfg', n_raw')
    /\ IF n_result'.exc = "none"
       THEN /\ n_column' = news_fresh_score(n_symbols', n_result'.scores)
            /\ qualified_df' = [i \in 1..Len(qualified_df) |->
                  [qualified_df[i] EXCEPT !.news_fresh_score = n_column'[i]]]
            /\ Goto("features")
       ELSE /\ n_column' = n_column
            /\ qualified_df' = qualified_df
            /\ pc' = "raised" /\ ret' = ret
    /\ calls' = Append(calls, "_news_scores")
    /\ UNCHANGED <<npc, top_n, cfg, used_cached_csv, df, rejected_df,
                   features_input, featured_df, diversified_df, files>>
    /\ UNCHANGED <<parseVars, ioVars>>

\* mutant of BuildFeaturesAndScore: build_features is handed df
BuildFeaturesOnWholeTable ==
    /\ pc = "features"
    /\ features_input' = df
    /\ LET built == build_features(df)
           scored == [i \in 1..Len(built) |->
                        [built[i] EXCEPT !.score = compute_score(built[i])]]
       IN  featured_df' = sort_values(scored)
    /\ calls' = calls \o <<"build_features", "compute_score">>
    /\ Goto("diversify")
    /\ UNCHANGED <<top_n, cfg, used_cached_csv, df, qualified_df, rejected_df,
                   diversified_df, files>>
    /\ UNCHANGED <<parseVars, newsVars, ioVars>>

\* featured_df = build_features(qualified_df, cfg); score and tier columns;
\* featured_df.sort_values(...)
BuildFeaturesAndScore ==
    /\ pc = "features"
    /\ features_input' = qualified_df
    /\ LET built == build_features(qualified_df)
           scored == [i \in 1..Len(built) |->
                        [built[i] EXCEPT !.score = compute_score(built[i])]]
       IN  featured_df' = sort_values(scored)
    /\ calls' = calls \o <<"build_features", "compute_score">>
    /\ Goto("diversify")
    /\ UNCHANGED <<top_n, cfg, used_cached_csv, df, qualified_df, rejected_df,
                   diversified_df, files>>
    /\ UNCHANGED <<parseVars, newsVars, ioVars>>

\* top_n_value = top_n if top_n is not None else cfg.premarket.top_n
top_n_value == IF top_n.given THEN top_n.v ELSE cfg.premarket.top_n

\* mutant of Diversify: the empty check is missing
DiversifyWithoutEmptyCheck ==
    /\ pc = "diversify"
    /\ diversified_df' = apply_sector_diversity(featured_df, top_n_value,
                                                cfg.premarket.max_per_sector)
    /\ Goto("rank")
    /\ calls' = Append(calls, "apply_sector_diversity")
    /\ UNCHANGED <<top_n, cfg, used_cached_csv, df, qualified_df, rejected_df,
                   features_input, featured_df, files>>
    /\ UNCHANGED <<parseVars, newsVars, ioVars>>

\* diversified_df = apply_sector_diversity(featured_df, top_n_value,
\* max_per_sector); an empty diversified_df returns 2
Diversify ==
    /\ pc = "diversify"
    /\ diversified_df' = apply_sector_diversity(featured_df, top_n_value,
                                                cfg.premarket.max_per_sector)
    /\ IF diversified_df' = <<>> THEN Return(2) ELSE Goto("rank")
    /\ calls' = Append(calls, "apply_sector_diversity")
    /\ UNCHANGED <<top_n, cfg, used_cached_csv, df, qualified_df, rejected_df,
                   features_input, featured_df, files>>
    /\ UNCHANGED <<parseVars, newsVars, ioVars>>

\* mutant of HeadAndRank: range(len(diversified_df))
HeadAndRankFromZero ==
    /\ pc = "rank"
    /\ LET top == head(diversified_df, top_n_value)
       IN  diversified_df' = [i \in 1..Len(top) |->
                                [top[i] EXCEPT !.rank = IntV(i - 1)]]
    /\ calls' = Append(calls, "rank")
    /\ Goto("write_full")
    /\ UNCHANGED <<top_n, cfg, used_cached_csv, df, qualified_df, rejected_df,
                   features_input, featured_df, files>>
    /\ UNCHANGED <<parseVars, newsVars, ioVars>>

\* diversified_df = diversified_df.head(top_n_value);
\* diversified_df["rank"] = range(1, len(diversified_df) + 1)
HeadAndRank ==
    /\ pc = "rank"
    /\ LET top == head(diversified_df, top_n_value)
       IN  diversified_df' = [i \in 1..Len(top) |->
                                [top[i] EXCEPT !.rank = IntV(i)]]
    /\ calls' = Append(calls, "rank")
    /\ Goto("write_full")
    /\ UNCHANGED <<top_n, cfg, used_cached_csv, df, qualified_df, rejected_df,
                   features_input, featured_df, files>>
    /\ UNCHANGED <<parseVars, newsVars, ioVars>>

WriteFile(name, content) == files' = (name :> content) @@ files

\* persist.write_json(full_watchlist, ...): one item per row of featured_df
WriteFullWatchlist ==
    /\ pc = "write_full"
    /\ WriteFile("full_watchlist.json", Column(featured_df, "ticker"))
    /\ Goto("write_topn")
    /\ UNCHANGED <<top_n, cfg, used_cached_csv, df, qualified_df, rejected_df,
                   features_input, featured_df, diversified_df, calls>>
    /\ UNCHANGED <<parseVars, newsVars, ioVars>>

\* persist.write_json({"top_n": ..., "symbols": ..., ...}, "topN.json")
WriteTopN ==
    /\ pc = "write_topn"
    /\ WriteFile("topN.json",
                 [top_n |-> top_n_value,
                  symbols |-> Column(diversified_df, "ticker")])
    /\ Goto("write_csv")
    /\ UNCHANGED <<top_n, cfg, used_cached_csv, df, qualified_df, rejected_df,
                   features_input, featured_df, diversified_df, calls>>
    /\ UNCHANGED <<parseVars, newsVars, ioVars>>

\* persist.write_csv(watchlist_table, "watchlist.csv")
WriteWatchlistCsv ==
    /\ pc = "write_csv"
    /\ WriteFile("watchlist.csv",
                 [i \in 1..Len(diversified_df) |->
                    [rank |-> diversified_df[i].rank.m,
                     symbol |-> diversified_df[i].ticker]])
    /\ Goto("write_summary")
    /\ UNCHANGED <<top_n, cfg, used_cached_csv, df, qualified_df, rejected_df,
                   features_input, featured_df, diversified_df, calls>>
    /\ UNCHANGED <<parseVars, newsVars, ioVars>>

\* persist.write_json(run_summary, "run_summary.json"); return 0
WriteSummaryAndReturn ==
    /\ pc = "write_summary"
    /\ WriteFile("run_summary.json",
                 [raw_rows |-> Len(df), qualified |-> Len(featured_df),
                  top_n |-> Len(diversified_df),
                  used_cached_csv |-> used_cached_csv])
    /\ Return(0)
    /\ UNCHANGED <<top_n, cfg, used_cached_csv, df, qualified_df, rejected_df,
                   features_input, featured_df, diversified_df, calls>>
    /\ UNCHANGED <<parseVars, newsVars, ioVars>>

Next ==
    \/ LoadConfig
    \/ CheckUrl
    \/ DownloadCsv
    \/ ReadNormalizeCoerce
    \/ ApplyHardFilters
    \/ NewsScores
    \/ BuildFeaturesAndScore
    \/ Diversify
    \/ HeadAndRank
    \/ WriteFullWatchlist
    \/ WriteTopN
    \/ WriteWatchlistCsv
    \/ WriteSummaryAndReturn

-----------------------------------------------------------------------------
(* env_str of premarket/utils.py *)

\* Optional[str]: None, or a text
NoneStr == [k |-> "none", s |-> <<>>]
Str(s) == [k |-> "str", s |-> s]

\* the characters an environment value is built from
EnvAlphabet == {" ", "#", "\"", "a"}
EnvTexts == UNION {[1..n -> EnvAlphabet] : n \in 0..MaxLen}

\* return os.environ.get(key, default)
env_str(env, key, default) ==
    IF key \in DOMAIN env THEN Str(env[key]) ELSE default

EnvKey == "SOME_KEY"
EnvDefaults == {NoneStr, Str(<<"d">>)}

\* env_str(EnvKey, e_default)
EnvStr ==
    /\ epc = "input"
    /\ epc' = "read"
    /\ e_result' = env_str(environ, EnvKey, e_default)
    /\ UNCHANGED <<environ, e_default>>
    /\ UNCHANGED <<parseVars, newsVars, runVars, loadVars, dbVars, urlVars>>

-----------------------------------------------------------------------------
(* premarket/loader_finviz.py, and run's call of download_csv *)

\* int(text): surrounding whitespace ignored, optional sign, then digits.
\* An int of fourteen digits or more is kept by its sign alone.
PyInt(text) ==
    LET t == Strip(text)
        signed == t # <<>> /\ t[1] \in {"-", "+"}
        sgn == IF signed /\ t[1] = "-" THEN -1 ELSE 1
        body == IF signed THEN Tail(t) ELSE t
    IN  IF body = <<>> \/ \E i \in 1..Len(body) : body[i] \notin Digits
        THEN Raised("ValueError")
        ELSE IF Len(body) >= 14 /\ body[1] # "0"
        THEN V("bigint", sgn)
        ELSE IntV(sgn * DigitsVal(body))

TtlKey == "CACHE_TTL_MIN"

\* _cache_ttl_minutes()
_cache_ttl_minutes(env) ==
    LET value == env_str(env, TtlKey, NoneStr)
    IN  IF value.k = "none" THEN IntV(60)
        ELSE IF PyInt(value.s).k = "ValueError" THEN IntV(60)
        ELSE PyInt(value.s)

\* timedelta(minutes=n): more than 999999999 days raise OverflowError
timedelta(minutes) ==
    IF minutes.k = "bigint" THEN Raised("OverflowError") ELSE minutes

\* the values CACHE_TTL_MIN is given
TtlTexts ==
    { <<"5">>, <<" ", "5", " ">>, <<"0">>, <<"-", "1">>, <<"x">>, <<"5", ".", "0">>,
      <<"1", "0", "0", "0", "0", "0", "0", "0", "0", "0", "0", "0", "0", "0">> }

\* minutes since out_path was modified
Ages == {0, 4, 5, 59, 60}

\* the directories of data/raw in sorted order; run's raw_csv_path is in Today
Dirs == 1..MaxDirs
Today == 2

Urls == {"https://elite.finviz.com/export?auth=A", "https://example.com/export"}
IdleUrl == "https://example.com/export"
Contents == {"csv1", "csv2"}

\* what a fetch, _http_get or a write produced: content, or an exception
NoOutcome == [k |-> "none", content |-> "", type |-> "", msg |-> <<>>]
Ok(content) == [k |-> "ok", content |-> content, type |-> "", msg |-> <<>>]
Raise(type, msg) == [k |-> "raise", content |-> "", type |-> type, msg |-> msg]

StubMessage == <<"Network access disabled", "in test environment">>
RequestsOutcomes ==
    {Ok(c) : c \in Contents}
    \cup { Raise("RequestException", StubMessage),
           Raise("RequestException", <<"HTTP 500">>),
           Raise("OSError", StubMessage) }
UrllibOutcomes ==
    {Ok(c) : c \in Contents} \cup {Raise("RequestException", <<"HTTP 404">>)}

\* "Network access disabled" in str(exc)
_is_stub_network_error(exc) ==
    \E i \in 1..Len(exc.msg) : exc.msg[i] = "Network access disabled"

\* what download_csv produced: a path (its directory), or an exception
NoPath == [k |-> "none", dir |-> 0, type |-> ""]
PathIn(dir) == [k |-> "path", dir |-> dir, type |-> ""]
RaisePath(type) == [k |-> "raise", dir |-> 0, type |-> type]

Fetch(fn, outcome) ==
    [fn |-> fn, url |-> finviz_url, attempt |-> attempt, outcome |-> outcome]

\* @retry(stop=stop_after_attempt(3), ...)
stop_after_attempt == 3

\* an attempt of _http_get raised: tenacity starts the next attempt, or
\* raises RetryError after the last one
AttemptRaised ==
    IF attempt >= stop_after_attempt
    THEN /\ http_result' = Raise("RetryError", <<>>)
         /\ lpc' = "fallback"
         /\ UNCHANGED attempt
    ELSE /\ attempt' = attempt + 1
         /\ lpc' = "requests"
         /\ UNCHANGED http_result

\* download_csv up to the attempt: the cache check
CheckCache ==
    /\ lpc = "download"
    /\ IF use_cache /\ Today \in DOMAIN cached
       THEN LET ttl == timedelta(_cache_ttl_minutes(environ))
            IN  IF IsRaise(ttl)
                THEN /\ csv_result' = RaisePath(ttl.k)
                     /\ lpc' = "raised"
                     /\ UNCHANGED attempt
                ELSE IF age < ttl.m
                THEN /\ csv_result' = PathIn(Today)
                     /\ lpc' = "returned"
                     /\ UNCHANGED attempt
                ELSE /\ lpc' = "requests"
                     /\ attempt' = 1
                     /\ UNCHANGED csv_result
       ELSE /\ lpc' = "requests"
            /\ attempt' = 1
            /\ UNCHANGED csv_result
    /\ UNCHANGED <<finviz_url, use_cache, cached, age, fetches, http_result,
                   written, escaped>>
    /\ UNCHANGED <<parseVars, newsVars, runVars, envVars, dbVars, urlVars>>

\* _http_get: return _fetch_with_requests(url), and the except clause
FetchWithRequestsOrUrllibOnAnyError(outcome) ==
    IF outcome.k = "ok"
    THEN /\ http_result' = outcome
         /\ lpc' = "write"
         /\ UNCHANGED attempt
    ELSE IF outcome.type = "RequestException"
    THEN /\ lpc' = "urllib"
         /\ UNCHANGED <<attempt, http_result>>
    ELSE AttemptRaised

RequestsReturned(outcome) ==
    IF outcome.k = "ok"
    THEN /\ http_result' = outcome
         /\ lpc' = "write"
         /\ UNCHANGED attempt
    ELSE IF outcome.type = "RequestException" /\ _is_stub_network_error(outcome)
    THEN /\ lpc' = "urllib"
         /\ UNCHANGED <<attempt, http_result>>
    ELSE AttemptRaised

FetchWithRequests ==
    /\ lpc = "requests"
    /\ \E outcome \in RequestsOutcomes :
          /\ fetches' = Append(fetches, Fetch("_fetch_with_requests", outcome))
          /\ RequestsReturned(outcome)
    /\ UNCHANGED <<finviz_url, use_cache, cached, age, written, csv_result, escaped>>
    /\ UNCHANGED <<parseVars, newsVars, runVars, envVars, dbVars, urlVars>>

\* _http_get: return _fetch_with_urllib(url)
FetchWithUrllib ==
    /\ lpc = "urllib"
    /\ \E outcome \in UrllibOutcomes :
          /\ fetches' = Append(fetches, Fetch("_fetch_with_urllib", outcome))
          /\ IF outcome.k = "ok"
             THEN /\ http_result' = outcome
                  /\ lpc' = "write"
                  /\ UNCHANGED attempt
             ELSE AttemptRaised
    /\ UNCHANGED <<finviz_url, use_cache, cached, age, written, csv_result, escaped>>
    /\ UNCHANGED <<parseVars, newsVars, runVars, envVars, dbVars, urlVars>>

\* out_path.write_text(content); return out_path
WriteText ==
    /\ lpc = "write"
    /\ written' = Ok(http_result.content)
    /\ csv_result' = PathIn(Today)
    /\ lpc' = "returned"
    /\ UNCHANGED <<finviz_url, use_cache, cached, age, attempt, fetches,
                   http_result, escaped>>
    /\ UNCHANGED <<parseVars, newsVars, runVars, envVars, dbVars, urlVars>>

\* sorted(base_dir.glob("*/finviz_elite.csv"))[-1], None when there is none
FirstCachedFile(found) ==
    IF DOMAIN found = {} THEN NoPath ELSE PathIn(SetMin(DOMAIN found))

_latest_cached_file(found) ==
    IF DOMAIN found = {} THEN NoPath ELSE PathIn(SetMax(DOMAIN found))

\* download_csv: except (requests.RequestException, RetryError)
FallBack ==
    /\ lpc = "fallback"
    /\ LET fallback == _latest_cached_file(cached)
       IN  IF fallback.k = "none"
           THEN /\ csv_result' = RaisePath("RuntimeError")
                /\ lpc' = "raised"
           ELSE /\ csv_result' = fallback
                /\ lpc' = "returned"
    /\ UNCHANGED <<finviz_url, use_cache, cached, age, attempt, fetches,
                   http_result, written, escaped>>
    /\ UNCHANGED <<parseVars, newsVars, runVars, envVars, dbVars, urlVars>>

\* run: try: csv_path = download_csv(...) except RuntimeError: return 3;
\* used_cached_csv = csv_path != raw_csv_path
AfterDownload ==
    /\ lpc \in {"returned", "raised"}
    /\ lpc' = "done"
    /\ IF csv_result.k = "path"
       THEN /\ used_cached_csv' = (csv_result # PathIn(Today))
            /\ UNCHANGED <<ret, escaped>>
       ELSE IF csv_result.type = "RuntimeError"
       THEN /\ ret' = 3
            /\ UNCHANGED <<used_cached_csv, escaped>>
       ELSE /\ escaped' = csv_result.type
            /\ UNCHANGED <<ret, used_cached_csv>>
    /\ UNCHANGED <<pc, top_n, cfg, df, qualified_df, rejected_df,
                   features_input, featured_df, diversified_df, calls, files>>
    /\ UNCHANGED <<finviz_url, use_cache, cached, age, attempt, fetches,
                   http_result, written, csv_result>>
    /\ UNCHANGED <<parseVars, newsVars, envVars, dbVars, urlVars>>

NextLoad ==
    \/ CheckCache
    \/ FetchWithRequests
    \/ FetchWithUrllib
    \/ WriteText
    \/ FallBack
    \/ AfterDownload

-----------------------------------------------------------------------------
(* write_sqlite_outputs of premarket/persist.py *)

TableNames == {"full_watchlist", "top_n", "watchlist", "run_summary"}

\* no connection made yet: CREATE TABLE IF NOT EXISTS gives empty tables
NoDatabase == [table \in TableNames |-> <<>>]

RunDates == {"2024-01-02", "2024-01-03"}
GeneratedAts == {"09:00", "09:05"}

\* a record json.dumps cannot serialise; every other record it can
BadRecord == "not serialisable"

\* json.dumps(record, ensure_ascii=False)
json_dumps(record) ==
    IF record = BadRecord THEN Raised("TypeError") ELSE [k |-> "json", of |-> record]

\* _as_json_rows
_as_json_rows(run_date, generated_at, records) ==
    [i \in 1..Len(records) |->
        [run_date |-> run_date, generated_at |-> generated_at,
         payload |-> json_dumps(records[i])]]

\* DELETE FROM table WHERE run_date = ?
ClearNothing(rows, run_date) == rows

_clear_table(rows, run_date) ==
    SelectSeq(rows, LAMBDA row : row.run_date # run_date)

Call(run_date, generated_at, full_watchlist, top_n_records, watchlist_records, run_summary) ==
    [run_date |-> run_date, generated_at |-> generated_at,
     full_watchlist |-> full_watchlist, top_n_records |-> top_n_records,
     watchlist_records |-> watchlist_records, run_summary |-> run_summary]

CallArguments ==
    { Call(d, g, full, top, watch, "summary") :
        d \in RunDates, g \in GeneratedAts,
        full \in {<<>>, <<"AAA">>, <<"AAA", "BBB">>, <<BadRecord>>},
        top \in {<<>>, <<"AAA">>},
        watch \in {<<>>, <<"BBB">>} }

Serialisable(call) ==
    \A records \in {call.full_watchlist, call.top_n_records,
                    call.watchlist_records, <<call.run_summary>>} :
        \A i \in 1..Len(records) : ~IsRaise(json_dumps(records[i]))

\* the rows of one call for one table
RowsFor(call, table) ==
    _as_json_rows(call.run_date, call.generated_at,
        CASE table = "full_watchlist" -> call.full_watchlist
          [] table = "top_n" -> call.top_n_records
          [] table = "watchlist" -> call.watchlist_records
          [] table = "run_summary" -> <<call.run_summary>>)

\* write_sqlite_outputs: the rows are built first, then one transaction
\* replaces the rows of run_date in the four tables
WriteSqliteOutputs ==
    /\ Len(db_history) < MaxCalls
    /\ \E call \in CallArguments :
          /\ db_before' = db
          /\ IF Serialisable(call)
             THEN /\ db' = [table \in TableNames |->
                              _clear_table(db[table], call.run_date)
                              \o RowsFor(call, table)]
                  /\ db_history' = Append(db_history, [call |-> call, raised |-> "none"])
             ELSE /\ db' = db
                  /\ db_history' = Append(db_history, [call |-> call, raised |-> "TypeError"])
    /\ UNCHANGED <<parseVars, newsVars, runVars, envVars, loadVars, urlVars>>

-----------------------------------------------------------------------------
(* redact_token of premarket/utils.py, with urllib.parse *)

\* str.find(c): the first position of c, 0 when there is none
Find(s, c) ==
    LET at == {i \in 1..Len(s) : s[i] = c}
    IN  IF at = {} THEN 0 ELSE SetMin(at)

StartsWith(s, prefix) ==
    Len(s) >= Len(prefix) /\ SubSeq(s, 1, Len(prefix)) = prefix

\* str.split(c)
RECURSIVE Split(_, _)
Split(s, c) ==
    IF Find(s, c) = 0 THEN <<s>>
    ELSE <<SubSeq(s, 1, Find(s, c) - 1)>> \o Split(SubSeq(s, Find(s, c) + 1, Len(s)), c)

\* str.split(c, 1)
SplitOnce(s, c) ==
    IF Find(s, c) = 0 THEN <<s>>
    ELSE <<SubSeq(s, 1, Find(s, c) - 1), SubSeq(s, Find(s, c) + 1, Len(s))>>

\* c.join(parts)
RECURSIVE Join(_, _)
Join(parts, c) ==
    IF parts = <<>> THEN <<>>
    ELSE IF Len(parts) = 1 THEN parts[1]
    ELSE parts[1] \o <<c>> \o Join(Tail(parts), c)

\* str.lower()
Lower(s) == [i \in 1..Len(s) |-> IF s[i] = "A" THEN "a" ELSE s[i]]

\* the characters of scheme_chars that URLs are written with here
Letters == {"h", "t", "p", "a", "u", "q", "A", "f", "S", "T"}
SchemeChars == Letters \cup {"1"}
UsesNetloc == {<<>>, <<"h", "t", "t", "p">>}

SplitResult(scheme, netloc, path, query, fragment) ==
    [k |-> "split", scheme |-> scheme, netloc |-> netloc, path |-> path,
     query |-> query, fragment |-> fragment]
SplitRaised == [k |-> "ValueError", scheme |-> <<>>, netloc |-> <<>>, path |-> <<>>,
                query |-> <<>>, fragment |-> <<>>]

\* ipaddress.ip_address(host) accepts the bracketed host as an IPv6 address
IsIPv6Address(host) == host = <<":", ":", "1">>

\* _splitnetloc(url, 2): the netloc ends at the first of '/', '?', '#'
_splitnetloc(text) ==
    LET ends == {i \in 3..Len(text) : text[i] \in {"/", "?", "#"}}
        delim == IF ends = {} THEN Len(text) + 1 ELSE SetMin(ends)
    IN  <<SubSeq(text, 3, delim - 1), SubSeq(text, delim, Len(text))>>

\* urlsplit(url)
urlsplit(text) ==
    LET i == Find(text, ":")
        hasScheme == /\ i > 1
                     /\ text[1] \in Letters
                     /\ \A j \in 1..(i - 1) : text[j] \in SchemeChars
        scheme == IF hasScheme THEN Lower(SubSeq(text, 1, i - 1)) ELSE <<>>
        rest == IF hasScheme THEN SubSeq(text, i + 1, Len(text)) ELSE text
        hasNetloc == StartsWith(rest, <<"/", "/">>)
        netloc == IF hasNetloc THEN _splitnetloc(rest)[1] ELSE <<>>
        after == IF hasNetloc THEN _splitnetloc(rest)[2] ELSE rest
        open == Find(netloc, "[")
        close == Find(netloc, "]")
        bracketed == SubSeq(netloc, open + 1,
                            open + Find(SubSeq(netloc, open + 1, Len(netloc)), "]") - 1)
        noFragment == IF Find(after, "#") = 0 THEN after ELSE SplitOnce(after, "#")[1]
        fragment == IF Find(after, "#") = 0 THEN <<>> ELSE SplitOnce(after, "#")[2]
        path == IF Find(noFragment, "?") = 0 THEN noFragment ELSE SplitOnce(noFragment, "?")[1]
        query == IF Find(noFragment, "?") = 0 THEN <<>> ELSE SplitOnce(noFragment, "?")[2]
    IN  IF (open > 0 /\ close = 0) \/ (close > 0 /\ open = 0)
        THEN SplitRaised
        ELSE IF open > 0 /\ close > 0 /\ ~IsIPv6Address(bracketed)
        THEN SplitRaised
        ELSE SplitResult(scheme, netloc, path, query, fragment)

\* parse_qsl(query, keep_blank_values=True)
parse_qsl(query) ==
    LET query_args == IF query = <<>> THEN <<>> ELSE Split(query, "&")
        fields == SelectSeq(query_args, LAMBDA name_value : name_value # <<>>)
    IN  [n \in 1..Len(fields) |->
            LET nv == SplitOnce(fields[n], "=")
            IN  IF Len(nv) = 2 THEN nv ELSE <<nv[1], <<>>>>]

\* urlunsplit((scheme, netloc, path, query, fragment))
urlunsplit(scheme, netloc, path, query, fragment) ==
    LET rooted == IF path # <<>> /\ path[1] # "/" THEN <<"/">> \o path ELSE path
        a == IF netloc # <<>>
                \/ (scheme # <<>> /\ scheme \in UsesNetloc /\ ~StartsWith(path, <<"/", "/">>))
             THEN <<"/", "/">> \o netloc \o rooted
             ELSE path
        b == IF scheme # <<>> THEN scheme \o <<":">> \o a ELSE a
        c == IF query # <<>> THEN b \o <<"?">> \o query ELSE b
    IN  IF fragment # <<>> THEN c \o <<"#">> \o fragment ELSE c

AUTH == <<"a", "u", "t", "h">>

\* the entry of masked_pairs for one (key, value)
masked_pair(pair) ==
    IF Lower(pair[1]) = AUTH THEN pair[1] \o <<"=", "*", "*", "*">>
    ELSE IF pair[2] # <<>>
    THEN pair[1] \o <<"=", "<", "r", "e", "d", "a", "c", "t", "e", "d", ">">>
    ELSE pair[1]

\* redact_token(url)
redact_token(text) ==
    IF text = <<>> THEN text
    ELSE LET parsed == urlsplit(text)
             query_pairs == parse_qsl(parsed.query)
         IN  IF parsed.k = "ValueError" THEN text
             ELSE IF query_pairs = <<>>
             THEN urlunsplit(parsed.scheme, parsed.netloc, parsed.path, <<>>,
                             parsed.fragment)
             ELSE urlunsplit(parsed.scheme, parsed.netloc, parsed.path,
                     Join([n \in 1..Len(query_pairs) |-> masked_pair(query_pairs[n])], "&"),
                     parsed.fragment)

\* what stands before the query of a URL, and after it
UrlPrefixes == {<<"h", "t", "t", "p", ":", "/", "/", "h", "/", "p">>,
                <<"h", "t", "t", "p", ":", "/", "/", "[", "h", "/", "p">>,
                <<"h", "t", "t", "p", ":", "/", "/", "[", ":", ":", "1", "]", "/", "p">>,
                <<"/", "p">>,
                <<>>}
UrlFragments == {<<>>, <<"#", "f">>}

\* a query parameter: key, whether '=' follows, and the value
ParamKeys == {AUTH, <<"A", "u", "t", "h">>, <<"q">>, <<>>}
ParamValues == {<<>>, <<"S">>, <<"T">>}
Param(key, eq, value) == [key |-> key, eq |-> eq, value |-> value]
Params ==
    {Param(key, TRUE, value) : key \in ParamKeys, value \in ParamValues}
    \cup {Param(key, FALSE, <<>>) : key \in ParamKeys}
ParamText(param) ==
    IF param.eq THEN param.key \o <<"=">> \o param.value ELSE param.key
UrlText(prefix, params, fragment) ==
    prefix
    \o (IF params = <<>> THEN <<>>
        ELSE <<"?">> \o Join([n \in 1..Len(params) |-> ParamText(params[n])], "&"))
    \o fragment

\* the same parameters, every non-empty value free to be another non-empty one
SameButValues(a, b) ==
    /\ Len(a) = Len(b)
    /\ \A n \in 1..Len(a) :
          /\ a[n].key = b[n].key /\ a[n].eq = b[n].eq
          /\ (a[n].value = <<>>) = (b[n].value = <<>>)

\* LOGGER.info("Downloading Finviz CSV from %s", utils.redact_token(url))
LogDownload ==
    /\ upc = "input"
    /\ upc' = "logged"
    /\ logged' = redact_token(url)
    /\ twin_logged' = redact_token(twin)
    /\ UNCHANGED <<url, twin>>
    /\ UNCHANGED <<parseVars, newsVars, runVars, envVars, loadVars, dbVars>>

-----------------------------------------------------------------------------
(* The specifications *)

IdleCell == ObjCell("none", NoneV)
IdleNewsModel == NewsModel(FALSE, 24)
IdleResult == ScoresDict(<<>>)

\* orchestrate.run from its first statement
Init ==
    /\ pc = "load_config" /\ ret = NoCode
    /\ top_n \in TopNArgs
    /\ cfg = NoConfig /\ used_cached_csv = FALSE
    /\ df = <<>> /\ qualified_df = <<>> /\ rejected_df = <<>>
    /\ features_input = <<>> /\ featured_df = <<>> /\ diversified_df = <<>>
    /\ calls = <<>> /\ files = <<>>
    /\ ppc = "idle" /\ cell = IdleCell
    /\ r_float = Unset /\ r_percent = Unset /\ r_int = Unset
    /\ r_range = UnsetRange /\ warning_count = 0
    /\ npc = "idle" /\ n_symbols = <<>> /\ n_cfg = IdleNewsModel
    /\ n_raw = <<>> /\ n_result = IdleResult /\ n_column = <<>>
    /\ epc = "idle" /\ environ = <<>> /\ e_default = NoneStr /\ e_result = NoneStr
    /\ lpc = "idle" /\ finviz_url = IdleUrl /\ use_cache = FALSE
    /\ cached = <<>> /\ age = 0 /\ attempt = 0 /\ fetches = <<>>
    /\ http_result = NoOutcome /\ written = NoOutcome
    /\ csv_result = NoPath /\ escaped = "none"
    /\ db = NoDatabase /\ db_before = NoDatabase /\ db_history = <<>>
    /\ upc = "idle" /\ url = <<>> /\ twin = <<>> /\ logged = <<>> /\ twin_logged = <<>>

Spec == Init /\ [][Next]_vars

\* one cell through the parsers
InitParse ==
    /\ ppc = "input" /\ cell \in Cells
    /\ r_float = Unset /\ r_percent = Unset /\ r_int = Unset
    /\ r_range = UnsetRange /\ warning_count = 0
    /\ npc = "idle" /\ n_symbols = <<>> /\ n_cfg = IdleNewsModel
    /\ n_raw = <<>> /\ n_result = IdleResult /\ n_column = <<>>
    /\ pc = "idle" /\ ret = NoCode
    /\ top_n = NoTopN /\ cfg = NoConfig /\ used_cached_csv = FALSE
    /\ df = <<>> /\ qualified_df = <<>> /\ rejected_df = <<>>
    /\ features_input = <<>> /\ featured_df = <<>> /\ diversified_df = <<>>
    /\ calls = <<>> /\ files = <<>>
    /\ epc = "idle" /\ environ = <<>> /\ e_default = NoneStr /\ e_result = NoneStr
    /\ lpc = "idle" /\ finviz_url = IdleUrl /\ use_cache = FALSE
    /\ cached = <<>> /\ age = 0 /\ attempt = 0 /\ fetches = <<>>
    /\ http_result = NoOutcome /\ written = NoOutcome
    /\ csv_result = NoPath /\ escaped = "none"
    /\ db = NoDatabase /\ db_before = NoDatabase /\ db_history = <<>>
    /\ upc = "idle" /\ url = <<>> /\ twin = <<>> /\ logged = <<>> /\ twin_logged = <<>>

SpecParse == InitParse /\ [][NextParse]_vars

\* one call of _news_scores with any probe result
InitNews ==
    /\ npc = "input"
    /\ n_symbols \in SeqsUpTo(NewsSymbols, MaxSymbols)
    /\ n_cfg \in {NewsModel(e, h) : e \in BOOLEAN, h \in FreshnessHours}
    /\ n_raw \in UNION {[S -> Payloads] : S \in SUBSET NewsSymbols}
    /\ n_result = IdleResult /\ n_column = <<>>
    /\ ppc = "idle" /\ cell = IdleCell
    /\ r_float = Unset /\ r_percent = Unset /\ r_int = Unset
    /\ r_range = UnsetRange /\ warning_count = 0
    /\ pc = "idle" /\ ret = NoCode
    /\ top_n = NoTopN /\ cfg = NoConfig /\ used_cached_csv = FALSE
    /\ df = <<>> /\ qualified_df = <<>> /\ rejected_df = <<>>
    /\ features_input = <<>> /\ featured_df = <<>> /\ diversified_df = <<>>
    /\ calls = <<>> /\ files = <<>>
    /\ epc = "idle" /\ environ = <<>> /\ e_default = NoneStr /\ e_result = NoneStr
    /\ lpc = "idle" /\ finviz_url = IdleUrl /\ use_cache = FALSE
    /\ cached = <<>> /\ age = 0 /\ attempt = 0 /\ fetches = <<>>
    /\ http_result = NoOutcome /\ written = NoOutcome
    /\ csv_result = NoPath /\ escaped = "none"
    /\ db = NoDatabase /\ db_before = NoDatabase /\ db_history = <<>>
    /\ upc = "idle" /\ url = <<>> /\ twin = <<>> /\ logged = <<>> /\ twin_logged = <<>>

SpecNews == InitNews /\ [][NextNews]_vars

\* one call of env_str on any value of the variable
InitEnv ==
    /\ epc = "input" /\ environ \in {<<>>} \cup {(EnvKey :> t) : t \in EnvTexts}
    /\ e_default \in EnvDefaults /\ e_result = NoneStr
    /\ ppc = "idle" /\ cell = IdleCell
    /\ r_float = Unset /\ r_percent = Unset /\ r_int = Unset
    /\ r_range = UnsetRange /\ warning_count = 0
    /\ npc = "idle" /\ n_symbols = <<>> /\ n_cfg = IdleNewsModel
    /\ n_raw = <<>> /\ n_result = IdleResult /\ n_column = <<>>
    /\ pc = "idle" /\ ret = NoCode
    /\ top_n = NoTopN /\ cfg = NoConfig /\ used_cached_csv = FALSE
    /\ df = <<>> /\ qualified_df = <<>> /\ rejected_df = <<>>
    /\ features_input = <<>> /\ featured_df = <<>> /\ diversified_df = <<>>
    /\ calls = <<>> /\ files = <<>>
    /\ lpc = "idle" /\ finviz_url = IdleUrl /\ use_cache = FALSE
    /\ cached = <<>> /\ age = 0 /\ attempt = 0 /\ fetches = <<>>
    /\ http_result = NoOutcome /\ written = NoOutcome
    /\ csv_result = NoPath /\ escaped = "none"
    /\ db = NoDatabase /\ db_before = NoDatabase /\ db_history = <<>>
    /\ upc = "idle" /\ url = <<>> /\ twin = <<>> /\ logged = <<>> /\ twin_logged = <<>>

SpecEnv == InitEnv /\ [][EnvStr]_vars

\* run about to call download_csv, with any cache, TTL and network
InitLoad ==
    /\ lpc = "download" /\ finviz_url \in Urls /\ use_cache \in BOOLEAN
    /\ cached \in {[dir \in S |-> <<"cached", dir>>] : S \in SUBSET Dirs}
    /\ age \in Ages /\ (Today \notin DOMAIN cached => age = 0)
    /\ attempt = 0 /\ fetches = <<>>
    /\ http_result = NoOutcome /\ written = NoOutcome
    /\ csv_result = NoPath /\ escaped = "none"
    /\ epc = "idle" /\ environ \in {<<>>} \cup {(TtlKey :> t) : t \in TtlTexts}
    /\ e_default = NoneStr /\ e_result = NoneStr
    /\ ppc = "idle" /\ cell = IdleCell
    /\ r_float = Unset /\ r_percent = Unset /\ r_int = Unset
    /\ r_range = UnsetRange /\ warning_count = 0
    /\ npc = "idle" /\ n_symbols = <<>> /\ n_cfg = IdleNewsModel
    /\ n_raw = <<>> /\ n_result = IdleResult /\ n_column = <<>>
    /\ pc = "idle" /\ ret = NoCode
    /\ top_n = NoTopN /\ cfg = NoConfig /\ used_cached_csv = FALSE
    /\ df = <<>> /\ qualified_df = <<>> /\ rejected_df = <<>>
    /\ features_input = <<>> /\ featured_df = <<>> /\ diversified_df = <<>>
    /\ calls = <<>> /\ files = <<>>
    /\ db = NoDatabase /\ db_before = NoDatabase /\ db_history = <<>>
    /\ upc = "idle" /\ url = <<>> /\ twin = <<>> /\ logged = <<>> /\ twin_logged = <<>>

SpecLoad == InitLoad /\ [][NextLoad]_vars

\* a new database, before the first call
InitDb ==
    /\ db = NoDatabase /\ db_before = NoDatabase /\ db_history = <<>>
    /\ lpc = "idle" /\ finviz_url = IdleUrl /\ use_cache = FALSE
    /\ cached = <<>> /\ age = 0 /\ attempt = 0 /\ fetches = <<>>
    /\ http_result = NoOutcome /\ written = NoOutcome
    /\ csv_result = NoPath /\ escaped = "none"
    /\ epc = "idle" /\ environ = <<>> /\ e_default = NoneStr /\ e_result = NoneStr
    /\ ppc = "idle" /\ cell = IdleCell
    /\ r_float = Unset /\ r_percent = Unset /\ r_int = Unset
    /\ r_range = UnsetRange /\ warning_count = 0
    /\ npc = "idle" /\ n_symbols = <<>> /\ n_cfg = IdleNewsModel
    /\ n_raw = <<>> /\ n_result = IdleResult /\ n_column = <<>>
    /\ pc = "idle" /\ ret = NoCode
    /\ top_n = NoTopN /\ cfg = NoConfig /\ used_cached_csv = FALSE
    /\ df = <<>> /\ qualified_df = <<>> /\ rejected_df = <<>>
    /\ features_input = <<>> /\ featured_df = <<>> /\ diversified_df = <<>>
    /\ calls = <<>> /\ files = <<>>
    /\ upc = "idle" /\ url = <<>> /\ twin = <<>> /\ logged = <<>> /\ twin_logged = <<>>

SpecDb == InitDb /\ [][WriteSqliteOutputs]_vars

\* download_csv about to log its url, and the same for the twin URL
InitUrl ==
    /\ upc = "input"
    /\ \E prefix \in UrlPrefixes, fragment \in UrlFragments :
          \E a \in SeqsUpTo(Params, MaxParams), b \in SeqsUpTo(Params, MaxParams) :
             /\ SameButValues(a, b)
             /\ url = UrlText(prefix, a, fragment)
             /\ twin = UrlText(prefix, b, fragment)
    /\ logged = <<>> /\ twin_logged = <<>>
    /\ db = NoDatabase /\ db_before = NoDatabase /\ db_history = <<>>
    /\ lpc = "idle" /\ finviz_url = IdleUrl /\ use_cache = FALSE
    /\ cached = <<>> /\ age = 0 /\ attempt = 0 /\ fetches = <<>>
    /\ http_result = NoOutcome /\ written = NoOutcome
    /\ csv_result = NoPath /\ escaped = "none"
    /\ epc = "idle" /\ environ = <<>> /\ e_default = NoneStr /\ e_result = NoneStr
    /\ ppc = "idle" /\ cell = IdleCell
    /\ r_float = Unset /\ r_percent = Unset /\ r_int = Unset
    /\ r_range = UnsetRange /\ warning_count = 0
    /\ npc = "idle" /\ n_symbols = <<>> /\ n_cfg = IdleNewsModel
    /\ n_raw = <<>> /\ n_result = IdleResult /\ n_column = <<>>
    /\ pc = "idle" /\ ret = NoCode
    /\ top_n = NoTopN /\ cfg = NoConfig /\ used_cached_csv = FALSE
    /\ df = <<>> /\ qualified_df = <<>> /\ rejected_df = <<>>
    /\ features_input = <<>> /\ featured_df = <<>> /\ diversified_df = <<>>
    /\ calls = <<>> /\ files = <<>>

SpecUrl == InitUrl /\ [][LogDownload]_vars

-----------------------------------------------------------------------------
(* Properties of orchestrate.run, checked under Spec *)

Called(name) == name \in Elems(calls)
Written == DOMAIN files
Returned(code) == pc = "returned" /\ ret = code

\* C1: when the table read is empty, when no row passes the hard filters, or
\* when the diversified selection is empty, run returns 2 and does not raise,
\* and no artifact exists; artifacts exist only on the path that returns 0,
\* which ends with all four written.
C1_EmptyResultsReturnTwo ==
    /\ pc # "raised"
    /\ (Called("apply_hard_filters") /\ (df = <<>> \/ qualified_df = <<>>))
          => Returned(2)
    /\ (Called("apply_sector_diversity") /\ diversified_df = <<>>)
          => Returned(2)
    /\ (pc = "returned" /\ ret # 0) => Written = {}
    /\ Written # {} =>
          \/ pc \in {"write_topn", "write_csv", "write_summary"}
          \/ Returned(0)
    /\ Returned(0) => Written = Artifacts

\* rows passed the filters and the diversified selection came out empty
C1_Witness ==
    /\ Returned(2)
    /\ Len(qualified_df) >= 2
    /\ Called("apply_sector_diversity")
    /\ diversified_df = <<>>
    /\ Written = {}

\* C2: once ranked, the selection has at most top_n_value rows, its rank
\* column is 1, 2, ..., k in order, topN.json lists exactly k symbols and
\* watchlist.csv carries the same k ranks; a run that returns 0 has ranked.
C2_DenseRanksWithinTopN ==
    /\ Returned(0) => Called("rank")
    /\ Called("rank") =>
          LET k == Len(diversified_df)
          IN  /\ k <= top_n_value
              /\ \A i \in 1..k : diversified_df[i].rank = IntV(i)
              /\ "topN.json" \in Written =>
                    /\ Len(files["topN.json"].symbols) = k
                    /\ files["topN.json"].top_n = top_n_value
              /\ "watchlist.csv" \in Written =>
                    /\ Len(files["watchlist.csv"]) = k
                    /\ \A i \in 1..k : files["watchlist.csv"][i].rank = i

\* a run returned 0 with fewer rows selected than were scored
C2_Witness ==
    /\ Returned(0)
    /\ Len(diversified_df) = 2
    /\ Len(featured_df) > 2
    /\ Len(files["topN.json"].symbols) = 2

\* a ranks above b: higher score, then higher turnover, then earlier ticker
RanksAbove(a, b) ==
    \/ a.score.m > b.score.m
    \/ /\ a.score.m = b.score.m /\ a.turnover_dollar.m > b.turnover_dollar.m
    \/ /\ a.score.m = b.score.m /\ a.turnover_dollar.m = b.turnover_dollar.m
       /\ TickerOrd(a.ticker) < TickerOrd(b.ticker)

\* the least integer not below max_fraction * top_n
CeilOfProduct(n, maxFraction) ==
    CHOOSE c \in -(MaxRows + 3)..(MaxRows + 3) :
        /\ c * maxFraction.den >= maxFraction.num * n
        /\ (c - 1) * maxFraction.den < maxFraction.num * n

InSector(table, sector) == {i \in 1..Len(table) : table[i].sector = sector}

\* the rows of a sector that rank above row i of the table, plus row i
SectorStanding(table, i) ==
    Cardinality({j \in InSector(table, table[i].sector) :
                    j = i \/ RanksAbove(table[j], table[i])})

\* how many rows a walk under the cap alone can admit
WithinCap(table, cap) ==
    LET perSector == [sec \in Sectors |->
                        Min2(Cardinality(InSector(table, sec)), Max2(cap, 0))]
    IN  SumOver(Sectors, perSector)

\* C3: with the scored rows ordered by (score desc, turnover desc, ticker
\* asc), no sector has more than ceil(max_fraction * top_n) selected rows
\* when the rows admissible under the cap fill top_n; otherwise the rows
\* within the cap are all selected and the rest of the selection is the
\* highest-ranked remaining rows, so that fewer than top_n rows are selected
\* only when fewer than top_n rows were scored.
C3_SectorCapUnlessRelaxed ==
    Called("apply_sector_diversity") =>
        LET n == top_n_value
            cap == CeilOfProduct(n, cfg.premarket.max_per_sector)
            cand == featured_df
            sel == Column(diversified_df, "ticker")
            chosen == {i \in 1..Len(cand) : cand[i].ticker \in Elems(sel)}
            left == (1..Len(cand)) \ chosen
            beyond == {i \in chosen : SectorStanding(cand, i) > cap}
        IN  /\ \A i \in 1..Len(cand) - 1 : RanksAbove(cand[i], cand[i + 1])
            /\ Cardinality(chosen) = Len(sel)
            /\ Cardinality(Elems(sel)) = Len(sel)
            /\ Len(sel) < n => left = {}
            /\ WithinCap(cand, cap) >= n => beyond = {}
            /\ WithinCap(cand, cap) < n =>
                  /\ Len(sel) = Max2(0, Min2(n, Len(cand)))
                  /\ left # {} =>
                        \A i \in 1..Len(cand) : SectorStanding(cand, i) <= cap
                                                    => i \in chosen
                  /\ \A i \in beyond, j \in left : RanksAbove(cand[i], cand[j])

\* the cap was exceeded by a relaxed fill that still left a row out
C3_Witness ==
    /\ Called("apply_sector_diversity")
    /\ Len(featured_df) = 3
    /\ Len(diversified_df) = 2
    /\ diversified_df[1].sector = diversified_df[2].sector
    /\ cfg.premarket.max_per_sector = Fraction(1, 2)
    /\ top_n_value = 2

PipelineStages ==
    {"normalize_columns", "coerce_types", "build_features", "apply_hard_filters",
     "compute_score", "apply_sector_diversity", "rank"}
StageCalls == SelectSeq(calls, LAMBDA c : c \in PipelineStages)
IsPrefix(a, b) == Len(a) <= Len(b) /\ a = SubSeq(b, 1, Len(a))

-----------------------------------------------------------------------------
(* Properties of the parsers, checked under SpecParse *)

Parsed == ppc = "parsed"
IsText == cell.t = "str"
Has(s, c) == \E i \in 1..Len(s) : s[i] = c
Without(s, chars) == SelectSeq(s, LAMBDA x : x \notin chars)

\* the cell is blank or one of the "no value" markers, in any case
SentinelCell ==
    /\ IsText
    /\ \/ \A i \in 1..Len(cell.s) : cell.s[i] = " "
       \/ Upper(Strip(cell.s)) \in Sentinels

\* a plain decimal number: optional minus, digits, at most one point
WellFormedDecimal(s) ==
    LET body == IF s # <<>> /\ s[1] = "-" THEN Tail(s) ELSE s
    IN  /\ \A i \in 1..Len(body) : body[i] \in Digits \cup {"."}
        /\ Cardinality({i \in 1..Len(body) : body[i] = "."}) <= 1
        /\ \E i \in 1..Len(body) : body[i] \in Digits

\* the number a plain decimal denotes, digit by digit with its place value
DecimalValue(s) ==
    LET neg == s[1] = "-"
        body == IF neg THEN Tail(s) ELSE s
        n == Len(body)
        p == IF Has(body, ".") THEN CHOOSE i \in 1..n : body[i] = "." ELSE n + 1
        place == [i \in 1..n |->
                    IF i < p THEN DigitVal(body[i]) * Scale * 10 ^ (p - 1 - i)
                    ELSE IF i = p THEN 0
                    ELSE DigitVal(body[i]) * (Scale \div 10 ^ (i - p))]
        total == SumOver(1..n, place)
    IN  FloatV(IF neg THEN 0 - total ELSE total)

\* C5 (as claimed): the four parsers never raise, whatever the cell holds, and
\* blank cells and the markers N/A, NA, - (any case) always give absent.
C5_ParsersTotal ==
    Parsed =>
        /\ ~IsRaise(r_float) /\ ~IsRaise(r_percent) /\ ~IsRaise(r_int)
        /\ r_range.k \in {"none", "pair"}
        /\ SentinelCell =>
              /\ r_float = NoneV /\ r_percent = NoneV /\ r_int = NoneV
              /\ r_range = NoRange

\* C6 (as claimed): safe_float returns n for every decoration of a plain
\* decimal n with ",", "$" or "%", and so does safe_percent.
C6_FloatStripsAllDecorations ==
    (Parsed /\ IsText /\ WellFormedDecimal(Without(cell.s, {",", "$", "%"}))) =>
        /\ r_float = DecimalValue(Without(cell.s, {",", "$", "%"}))
        /\ r_percent = DecimalValue(Without(cell.s, {",", "$", "%"}))

\* C6 (amended): safe_float returns n for every decoration of a plain decimal
\* n with "," and "$" only; a text holding "%" is absent for safe_float;
\* safe_percent returns n (the plain percentage number) for every decoration
\* with ",", "$" or "%".
C6_FloatStripsCommaDollar ==
    (Parsed /\ IsText) =>
        /\ WellFormedDecimal(Without(cell.s, {",", "$"})) =>
              r_float = DecimalValue(Without(cell.s, {",", "$"}))
        /\ Has(cell.s, "%") => r_float = NoneV
        /\ WellFormedDecimal(Without(cell.s, {",", "$", "%"})) =>
              r_percent = DecimalValue(Without(cell.s, {",", "$", "%"}))

\* a "$" and a "," were stripped and a "%" text went through safe_percent
C6_Witness ==
    /\ Parsed /\ IsText
    /\ Has(cell.s, "$") /\ Has(cell.s, ",") /\ Has(cell.s, "%")
    /\ r_float = NoneV
    /\ r_percent = FloatV(5 * Scale)

\* C7 (as claimed): safe_int is absent exactly when safe_float is, and is
\* otherwise safe_float's value with the fraction dropped toward zero.
C7_IntIsTruncatedFloat ==
    Parsed =>
        /\ (r_int = NoneV) <=> (r_float = NoneV)
        /\ r_float # NoneV =>
              /\ r_float.k = "float"
              /\ r_int.k = "int"
              /\ IF r_float.m >= 0
                 THEN /\ r_int.m * Scale <= r_float.m
                      /\ r_float.m < (r_int.m + 1) * Scale
                 ELSE /\ r_int.m * Scale >= r_float.m
                      /\ r_float.m > (r_int.m - 1) * Scale

\* the pieces of a text between hyphens that are not blank, as index pairs
Segments(s) ==
    {sg \in (1..Len(s)) \X (1..Len(s)) :
        /\ sg[1] <= sg[2]
        /\ \A k \in sg[1]..sg[2] : s[k] # "-"
        /\ sg[1] = 1 \/ s[sg[1] - 1] = "-"
        /\ sg[2] = Len(s) \/ s[sg[2] + 1] = "-"
        /\ \E k \in sg[1]..sg[2] : s[k] # " "}

\* C8 (as claimed): parse_range splits on the first hyphen only and returns
\* absent when either side is empty or unparsable or the bounds are equal.
C8_SplitsOnFirstHyphen ==
    Parsed => r_range = parse_range_first_hyphen(cell)

\* C8 (amended): parse_range splits on every hyphen and drops the blank
\* pieces; it returns (low, high) exactly when two pieces remain, both parse
\* with safe_float and the values are unequal, low and high being those two
\* values in order; in every other case, and for a non-string, it is absent.
C8_SplitsOnEveryHyphen ==
    Parsed =>
        IF ~IsText THEN r_range = NoRange
        ELSE LET segs == Segments(cell.s)
                 first == CHOOSE sg \in segs : \A o \in segs : sg[1] <= o[1]
                 last == CHOOSE sg \in segs : \A o \in segs : o[1] <= sg[1]
                 low == safe_float(StrCell(SubSeq(cell.s, first[1], first[2])))
                 high == safe_float(StrCell(SubSeq(cell.s, last[1], last[2])))
             IN  IF /\ Cardinality(segs) = 2
                    /\ low # NoneV /\ high # NoneV
                    /\ (low.k = "nan" \/ high.k = "nan" \/ low # high)
                 THEN r_range = Range(low, high)
                 ELSE r_range = NoRange

\* a text with a leading hyphen and a second hyphen parsed to a pair
C8_Witness ==
    /\ Parsed /\ IsText
    /\ Len(cell.s) = 4 /\ cell.s[1] = "-" /\ cell.s[3] = "-"
    /\ r_range.k = "pair"

\* the cell is a text float() cannot read and is not blank or a marker
UnparsableCell ==
    /\ IsText
    /\ ~SentinelCell
    /\ LET t == Strip(Without(Strip(cell.s), {",", "$"}))
           body == IF t # <<>> /\ t[1] = "-" THEN Tail(t) ELSE t
       IN  ~WellFormedDecimal(t) /\ Upper(body) # <<"N", "A", "N">>

-----------------------------------------------------------------------------
(* Properties of the news scores, checked under SpecNews *)

-----------------------------------------------------------------------------
(* Properties of env_str, checked under SpecEnv *)

EnvValue == environ[EnvKey]
Blank(s) == Strip(s) = <<>>
CommentOnly(s) == Strip(s) # <<>> /\ Head(Strip(s)) = "#"

\* the positions of a '#' that opens a comment: preceded by whitespace
CommentStarts(s) == {i \in 2..Len(s) : s[i] = "#" /\ s[i - 1] = " "}
WithoutComment(s) ==
    IF CommentStarts(s) = {} THEN s ELSE SubSeq(s, 1, SetMin(CommentStarts(s)) - 1)

\* a leading and a trailing double quote dropped
Unquoted(s) ==
    LET a == IF s # <<>> /\ Head(s) = "\"" THEN Tail(s) ELSE s
    IN  IF a # <<>> /\ a[Len(a)] = "\"" THEN SubSeq(a, 1, Len(a) - 1) ELSE a

Cleaned(s) == Unquoted(Strip(WithoutComment(s)))

\* C11: env_str returns the default when the variable is unset, blank or
\* only a '#' comment; otherwise it returns the value with a trailing
\* whitespace-separated comment and wrapping or dangling double quotes
\* removed, a '#' that does not follow whitespace being kept.
C11_EnvStrCleansValue ==
    epc = "read" =>
        IF EnvKey \notin DOMAIN environ \/ Blank(EnvValue) \/ CommentOnly(EnvValue)
        THEN e_result = e_default
        ELSE e_result = Str(Cleaned(EnvValue))

-----------------------------------------------------------------------------
(* Properties of the loader, checked under SpecLoad *)

IsRequests(f) == f.fn = "_fetch_with_requests"
IsUrllib(f) == f.fn = "_fetch_with_urllib"
StubFailure(f) ==
    /\ IsRequests(f)
    /\ f.outcome.k = "raise" /\ f.outcome.type = "RequestException"
    /\ \E i \in 1..Len(f.outcome.msg) : f.outcome.msg[i] = "Network access disabled"
SameCall(f, g) == f.url = g.url /\ f.attempt = g.attempt
HttpGetOver == lpc \notin {"download", "requests", "urllib"}

\* C12: in _http_get the urllib fetch is called exactly after a requests
\* fetch failed with a RequestException saying "Network access disabled",
\* with the same URL in the same attempt, and its content is what _http_get
\* returns; there are at most 3 attempts; _http_get returns the first
\* successful content, or fails once the third attempt has failed.
C12_UrllibOnlyAfterStubError ==
    /\ \A i \in 1..Len(fetches) :
          /\ fetches[i].url = finviz_url
          /\ fetches[i].attempt \in 1..3
          /\ IsUrllib(fetches[i]) =>
                /\ i > 1
                /\ StubFailure(fetches[i - 1])
                /\ SameCall(fetches[i - 1], fetches[i])
          /\ StubFailure(fetches[i]) =>
                IF i < Len(fetches)
                THEN IsUrllib(fetches[i + 1]) /\ SameCall(fetches[i], fetches[i + 1])
                ELSE lpc = "urllib"
          /\ fetches[i].outcome.k = "ok" =>
                i = Len(fetches) /\ http_result = fetches[i].outcome
    /\ Cardinality({i \in 1..Len(fetches) : IsRequests(fetches[i])}) <= 3
    /\ http_result.k = "ok" =>
          /\ fetches # <<>>
          /\ fetches[Len(fetches)].outcome = http_result
    /\ http_result.k = "raise" =>
          /\ http_result.type = "RetryError"
          /\ {fetches[i].attempt : i \in 1..Len(fetches)} = 1..3
          /\ \A i \in 1..Len(fetches) : fetches[i].outcome.k = "raise"
    /\ (HttpGetOver /\ fetches # <<>>) => http_result.k \in {"ok", "raise"}

\* the third attempt fell back to urllib, which succeeded
C12_Witness ==
    /\ http_result.k = "ok"
    /\ Len(fetches) >= 4
    /\ IsUrllib(fetches[Len(fetches)])
    /\ fetches[Len(fetches)].attempt = 3
    /\ lpc = "done"

DownloadFailed == http_result.k = "raise" /\ lpc \in {"returned", "raised", "done"}

\* C13: when every fetch attempt failed, download_csv returns the cached
\* finviz_elite.csv of the last directory under data/raw if there is one and
\* writes nothing to out_path; it raises RuntimeError only when there is no
\* cached file; run answers that RuntimeError with exit code 3 and lets no
\* exception escape.
C13_FallBackToLatestCache ==
    /\ DownloadFailed =>
          /\ written = NoOutcome
          /\ IF DOMAIN cached # {}
             THEN csv_result = PathIn(SetMax(DOMAIN cached))
             ELSE csv_result = RaisePath("RuntimeError")
          /\ lpc = "done" =>
                /\ escaped = "none"
                /\ (ret = 3) = (DOMAIN cached = {})
    /\ csv_result = RaisePath("RuntimeError") =>
          http_result.k = "raise" /\ DOMAIN cached = {}

\* all attempts failed with today's stale file and a later directory cached
C13_Witness ==
    /\ lpc = "done" /\ http_result.k = "raise"
    /\ Today \in DOMAIN cached
    /\ Cardinality(DOMAIN cached) >= 2
    /\ csv_result.k = "path" /\ csv_result.dir # Today

\* the TTL as the environment states it: CACHE_TTL_MIN, 60 when that is
\* unset or not an integer
StatedTtl ==
    IF TtlKey \notin DOMAIN environ \/ PyInt(environ[TtlKey]).k = "ValueError"
    THEN IntV(60)
    ELSE PyInt(environ[TtlKey])
AgeBelowTtl ==
    IF StatedTtl.k = "bigint" THEN StatedTtl.m > 0 ELSE age < StatedTtl.m
FreshCache == use_cache /\ Today \in DOMAIN cached /\ AgeBelowTtl

\* C14: with use_cache and an out_path younger than the TTL, download_csv
\* returns out_path with no fetch and no write; otherwise a fetch is
\* attempted first, and on success out_path holds the fetched content.
C14_HonoursUseCache ==
    lpc # "download" =>
        IF FreshCache
        THEN /\ lpc \in {"returned", "done"}
             /\ csv_result = PathIn(Today)
             /\ fetches = <<>>
             /\ written = NoOutcome
        ELSE /\ fetches # <<>> \/ lpc = "requests"
             /\ (http_result.k = "ok" /\ lpc \in {"returned", "done"}) =>
                   /\ written = Ok(http_result.content)
                   /\ csv_result = PathIn(Today)

\* C15: used_cached_csv is true exactly when the CSV that run goes on to
\* process was not written by a download of this run.
C15_FlagMeansNotDownloaded ==
    (lpc = "done" /\ csv_result.k = "path") =>
        used_cached_csv = (written = NoOutcome)

-----------------------------------------------------------------------------
(* Properties of write_sqlite_outputs, checked under SpecDb *)

\* the rows of a table that carry a run_date, in rowid order
RowsOf(database, table, run_date) ==
    SelectSeq(database[table], LAMBDA row : row.run_date = run_date)

\* the calls that returned, in order, and those among them for a run_date
ReturnedCalls(history) == SelectSeq(history, LAMBDA h : h.raised = "none")
CallsFor(run_date) ==
    SelectSeq(ReturnedCalls(db_history), LAMBDA h : h.call.run_date = run_date)
RecordsOf(call, table) ==
    CASE table = "full_watchlist" -> call.full_watchlist
      [] table = "top_n" -> call.top_n_records
      [] table = "watchlist" -> call.watchlist_records
      [] table = "run_summary" -> <<call.run_summary>>
LatestCall == db_history[Len(db_history)].call

\* C16: each table holds, for every run_date, exactly the records of the
\* most recent call made with that run_date, run_summary one row per
\* run_date; a call changes no row of another run_date; a call repeated
\* with the same arguments leaves the contents of the database as they were.
C16_LatestCallPerRunDate ==
    /\ \A run_date \in RunDates, table \in TableNames :
          LET rows == RowsOf(db, table, run_date)
              made == CallsFor(run_date)
          IN  IF made = <<>>
              THEN rows = <<>>
              ELSE LET call == made[Len(made)].call
                       records == RecordsOf(call, table)
                   IN  /\ Len(rows) = Len(records)
                       /\ \A i \in 1..Len(rows) :
                             /\ rows[i].payload = [k |-> "json", of |-> records[i]]
                             /\ rows[i].generated_at = call.generated_at
                       /\ table = "run_summary" => Len(rows) = 1
    /\ db_history # <<>> =>
          \A run_date \in RunDates \ {LatestCall.run_date}, table \in TableNames :
              RowsOf(db, table, run_date) = RowsOf(db_before, table, run_date)
    /\ (Len(db_history) >= 2 /\ db_history[Len(db_history) - 1] = db_history[Len(db_history)]) =>
          \A run_date \in RunDates, table \in TableNames :
              RowsOf(db, table, run_date) = RowsOf(db_before, table, run_date)

\* a run_date written twice, the second time with an empty full_watchlist,
\* while the other run_date was never written
C16_Witness ==
    /\ Len(db_history) = 2
    /\ db_history[1].raised = "none" /\ db_history[2].raised = "none"
    /\ db_history[1].call.run_date = db_history[2].call.run_date
    /\ db_history[1].call.full_watchlist # <<>>
    /\ db_history[2].call.full_watchlist = <<>>
    /\ db["full_watchlist"] = <<>>
    /\ Len(db["run_summary"]) = 1

-----------------------------------------------------------------------------
(* Properties of redact_token, checked under SpecUrl *)

\* the characters query parameter values are written with, and no other
\* part of a URL or of a placeholder
ValueChars == {"S", "T"}
ShowsValue(text) == \E i \in 1..Len(text) : text[i] \in ValueChars

\* C17: the string download_csv logs contains no query parameter value of
\* the URL, so two URLs that differ only in the non-empty values of their
\* query parameters are logged as the same string.
C17_NoQueryValueLogged ==
    upc = "logged" =>
        /\ ~ShowsValue(logged)
        /\ ~ShowsValue(twin_logged)
        /\ logged = twin_logged

=============================================================================
